---- MODULE Spec2Model ----
(***************************************************************************)
(* Model of picwriter/components/gratingcoupler.py: the construction of a  *)
(* GratingCoupler cell (GratingCoupler.__init__, build_cell, build_ports). *)
(*                                                                         *)
(* Numbers are fixed point.  Lengths (length, period, taper_length, width, *)
(* focus_distance, port coordinates, waveguide widths) are integers in one *)
(* common length unit.  dutycycle is the integer numerator dc of dc/DcDen. *)
(* Fields ending in 2 hold twice the value, fields ending in D hold DcDen  *)
(* times the value and fields ending in 2D hold 2*DcDen times the value,   *)
(* so that the 0.5*... and ...*dutycycle products of the source stay       *)
(* exact.                                                                  *)
(*                                                                         *)
(* An unbound Python local (path, teeth) and an absent optional argument   *)
(* (focus_distance=None) are the empty sequence; a bound one is the        *)
(* one-element sequence holding the value.                                 *)
(***************************************************************************)
EXTENDS Integers, Sequences, FiniteSets, TLC

\* ---- bounds of the input space
DcDen == 4
MaxLength == 4
MaxPeriod == 3
MaxFocus == 3

Directions == {"NORTH", "SOUTH", "EAST", "WEST"}
Resists == {"-", "+", "x"}
Ports == {<<0, 0>>, <<3, -2>>}
Widths == {4, 6}
TaperLengths == {1, 2}
WgWidths == {1}
CladWidths == {2}
FocusDistances == {<<>>} \cup {<<f>> : f \in -1..MaxFocus}
DutyCycles == -1..(DcDen + 1)

\* the waveguide templates the constructor reads (wgt.wg_width, wgt.clad_width, wgt.resist)
WaveguideTemplates ==
  [wg_width : WgWidths, clad_width : CladWidths, resist : Resists]

\* the argument tuples of GratingCoupler(...)
Arguments ==
  [wgt : WaveguideTemplates, port : Ports, direction : Directions,
   focus_distance : FocusDistances, width : Widths, length : 1..MaxLength,
   taper_length : TaperLengths, period : 1..MaxPeriod, dutycycle : DutyCycles]

VARIABLES args, pc, err, failedIn, portlist, path, teeth, elements

vars == <<args, pc, err, failedIn, portlist, path, teeth, elements>>

\* ---- pure helpers, computed as the source computes them

DutycycleInvalidOffByOne(dc) == dc >= DcDen \/ dc < 0

\* line 50: dutycycle>1.0 or dutycycle<0.0
DutycycleInvalid(dc) == dc > DcDen \/ dc < 0

num_teeth_ceil(length, period) == (length + period - 1) \div period

\* line 67: int(self.length//self.period)
num_teeth(length, period) == length \div period

qmin_trunc(fd, period) == fd \div period

\* line 91: int(self.focus_distance / float(self.period) + 0.5)
qmin(fd, period) == (2 * fd + period) \div (2 * period)

\* picwriter.toolkit.flip_direction: the opposite cardinal direction
flip_direction(d) ==
  CASE d = "NORTH" -> "SOUTH"
    [] d = "SOUTH" -> "NORTH"
    [] d = "EAST" -> "WEST"
    [] d = "WEST" -> "EAST"

\* a segment appended by Path.segment(length, direction, final_width=, final_distance=)
Segment(len, dir, fw, fd) ==
  [length |-> len, direction |-> dir, final_width |-> fw, final_distance |-> fd]

\* gdspy.Path(width, initial_point, number_of_paths, distance) before any segment
NewPath(w, p, n, dist) ==
  [width |-> w, origin |-> p, number_of_paths |-> n, distance |-> dist,
   segments |-> <<>>, rot |-> <<>>]

\* lines 72-74: the etch-negative taper
NegativePath(a) ==
  [NewPath(a.wgt.wg_width, a.port, 1, 0) EXCEPT
     !.segments = <<Segment(a.taper_length, "+y", <<a.width>>, <<>>)>>]

\* lines 78-82: the etch-positive dual-rail taper and grating rails
PositivePath(a) ==
  [NewPath(a.wgt.clad_width, a.port, 2, a.wgt.wg_width + a.wgt.clad_width) EXCEPT
     !.segments = <<Segment(a.taper_length, "+y", <<>>, <<a.width + a.wgt.clad_width>>),
                    Segment(a.length, "+y", <<>>, <<>>)>>]

FocusPathWithTaper(a) ==
  [NewPath(a.wgt.wg_width, a.port, 1, 0) EXCEPT
     !.segments = <<Segment(a.taper_length, "+y", <<>>, <<>>)>>]

\* line 88: the focusing branch's path, to which no segment is ever added
FocusPath(a) == NewPath(a.wgt.wg_width, a.port, 1, 0)

\* gdspy.L1Path(initial_point, '+x', width, [length], [], number, distance)
L1Path(x2, y2D, wD, len, n, dist) ==
  [kind |-> "L1Path", x2 |-> x2, y2D |-> y2D, direction |-> "+x", widthD |-> wD,
   lengths |-> <<len>>, number |-> n, distance |-> dist,
   curves |-> <<>>, cursor |-> <<"port", 0>>, closing |-> <<>>, fractured |-> FALSE,
   rot |-> <<>>]

\* lines 75-76 and 83-84: the tooth row for effective duty eff/DcDen
ToothRow(a, eff) ==
  L1Path(2 * a.port[1] - a.width,
         2 * DcDen * (a.taper_length + a.port[2])
           + (DcDen * (num_teeth(a.length, a.period) - 1) + eff) * a.period,
         a.period * eff, a.width, num_teeth(a.length, a.period), a.period)

NegativeTeeth(a) == ToothRow(a, a.dutycycle)

PositiveTeethMixedDuty(a) ==
  [ToothRow(a, a.dutycycle) EXCEPT !.widthD = a.period * (DcDen - a.dutycycle)]

PositiveTeeth(a) == ToothRow(a, DcDen - a.dutycycle)

StraightGenerateElse(a) ==
  IF a.wgt.resist = "-"
    THEN [path |-> <<NegativePath(a)>>, teeth |-> <<NegativeTeeth(a)>>]
    ELSE [path |-> <<PositivePath(a)>>, teeth |-> <<PositiveTeeth(a)>>]

\* lines 71-84: the locals path and teeth after the straight branch; neither
\* the if nor the elif runs for a resist tag other than '-' and '+'
StraightGenerate(a) ==
  IF a.wgt.resist = "-"
    THEN [path |-> <<NegativePath(a)>>, teeth |-> <<NegativeTeeth(a)>>]
    ELSE IF a.wgt.resist = "+"
      THEN [path |-> <<PositivePath(a)>>, teeth |-> <<PositiveTeeth(a)>>]
      ELSE [path |-> <<>>, teeth |-> <<>>]

\* line 92: gdspy.Path(self.period * self.dc, self.port)
NewTeethPath(a) ==
  [kind |-> "Path", x2 |-> 2 * a.port[1], y2D |-> 2 * DcDen * a.port[2],
   direction |-> "", widthD |-> a.period * a.dutycycle,
   lengths |-> <<>>, number |-> 1, distance |-> 0,
   curves |-> <<>>, cursor |-> <<"port", 0>>, closing |-> <<>>, fractured |-> FALSE,
   rot |-> <<>>]

\* lines 97-103: teeth.parametric(...) draws the curve of index q from the
\* cursor and leaves the cursor at the curve's end
Parametric(t, q) ==
  [t EXCEPT !.curves = Append(@, [q |-> q, from |-> t.cursor]),
            !.cursor = <<"end", q>>]

\* lines 104-105: teeth.x = self.port[0]; teeth.y = self.port[1]
ResetCursor(t) == [t EXCEPT !.cursor = <<"port", 0>>]

\* lines 96-105: for q in range(first, last): one curve, then the cursor reset
RECURSIVE ToothLoop(_, _, _)
ToothLoop(t, q, last) ==
  IF q >= last THEN t
  ELSE ToothLoop(ResetCursor(Parametric(t, q)), q + 1, last)

\* lines 90-105: the curved teeth, indices qmin .. qmin + num_teeth - 1
FocusTeeth(a) ==
  ToothLoop(NewTeethPath(a),
            qmin(a.focus_distance[1], a.period),
            qmin(a.focus_distance[1], a.period) + num_teeth(a.length, a.period))

\* lines 106-110: polygon 0 is closed with the two points at the waveguide's
\* half-width on each side of the port (x doubled), then the path is fractured
CloseAndFracture(t, a) ==
  [t EXCEPT !.closing = << <<2 * a.port[1] + a.wgt.wg_width, a.port[2]>>,
                           <<2 * a.port[1] - a.wgt.wg_width, a.port[2]>> >>,
            !.fractured = TRUE]

RotationsEastPositive(direction, center) ==
  (IF direction = "WEST" THEN <<[angle |-> 90, center |-> center]>> ELSE <<>>)
  \o (IF direction = "SOUTH" THEN <<[angle |-> 180, center |-> center]>> ELSE <<>>)
  \o (IF direction = "EAST" THEN <<[angle |-> 90, center |-> center]>> ELSE <<>>)

\* lines 112-120: the rotate calls (angle in degrees, center) each object
\* receives, in order, for the requested direction
Rotations(direction, center) ==
  (IF direction = "WEST" THEN <<[angle |-> 90, center |-> center]>> ELSE <<>>)
  \o (IF direction = "SOUTH" THEN <<[angle |-> 180, center |-> center]>> ELSE <<>>)
  \o (IF direction = "EAST" THEN <<[angle |-> -90, center |-> center]>> ELSE <<>>)

\* teeth.rotate / path.rotate on a bound object
Rotate(obj, rs) == <<[obj[1] EXCEPT !.rot = @ \o rs]>>

PortEntryUnflipped(a) ==
  [name |-> "output", port |-> a.port, direction |-> a.direction]

\* line 128: {'port': self.port, 'direction': tk.flip_direction(self.direction)}
PortEntry(a) ==
  [name |-> "output", port |-> a.port, direction |-> flip_direction(a.direction)]

\* ---- the state machine

\* the state on entry to __init__: nothing built, the arguments chosen
Init ==
  /\ args \in Arguments
  /\ pc = "start"
  /\ err = "none"
  /\ failedIn = "none"
  /\ portlist = {}
  /\ path = <<>>
  /\ teeth = <<>>
  /\ elements = <<>>

\* an exception of kind e leaves the constructor from function f
Raise(e, f) ==
  /\ pc' = "failed"
  /\ err' = e
  /\ failedIn' = f

\* lines 36-57: the field assignments and the dutycycle check
InitFields ==
  /\ pc = "start"
  /\ portlist' = {}
  /\ IF DutycycleInvalid(args.dutycycle)
       THEN Raise("ValueError", "__init__")
       ELSE pc' = "build_cell" /\ UNCHANGED <<err, failedIn>>
  /\ UNCHANGED <<args, path, teeth, elements>>

\* lines 67-84: build_cell, straight grating branch
StraightGrating ==
  /\ pc = "build_cell"
  /\ args.focus_distance = <<>>
  /\ path' = StraightGenerate(args).path
  /\ teeth' = StraightGenerate(args).teeth
  /\ pc' = "orient"
  /\ UNCHANGED <<args, err, failedIn, portlist, elements>>

\* lines 67, 85-110: build_cell, lensed grating branch
FocusingGrating ==
  /\ pc = "build_cell"
  /\ args.focus_distance # <<>>
  /\ path' = <<FocusPath(args)>>
  /\ IF ~(args.focus_distance[1] > 0)
       THEN /\ Raise("AssertionError", "build_cell")
            /\ UNCHANGED teeth
       ELSE IF FocusTeeth(args).curves = <<>>
         THEN /\ Raise("IndexError", "build_cell")
              /\ teeth' = <<FocusTeeth(args)>>
         ELSE /\ teeth' = <<CloseAndFracture(FocusTeeth(args), args)>>
              /\ pc' = "orient"
              /\ UNCHANGED <<err, failedIn>>
  /\ UNCHANGED <<args, portlist, elements>>

\* lines 112-120: build_cell, rotation of teeth and path about the port
Orient ==
  /\ pc = "orient"
  /\ IF Rotations(args.direction, args.port) # <<>> /\ (teeth = <<>> \/ path = <<>>)
       THEN /\ Raise("UnboundLocalError", "build_cell")
            /\ UNCHANGED <<teeth, path>>
       ELSE /\ teeth' = IF teeth = <<>> THEN teeth
                        ELSE Rotate(teeth, Rotations(args.direction, args.port))
            /\ path' = IF path = <<>> THEN path
                       ELSE Rotate(path, Rotations(args.direction, args.port))
            /\ pc' = "add"
            /\ UNCHANGED <<err, failedIn>>
  /\ UNCHANGED <<args, portlist, elements>>

\* lines 121-122: build_cell, self.add(teeth) then self.add(path)
AddToCell ==
  /\ pc = "add"
  /\ IF teeth = <<>>
       THEN /\ Raise("UnboundLocalError", "build_cell")
            /\ UNCHANGED elements
       ELSE IF path = <<>>
         THEN /\ Raise("UnboundLocalError", "build_cell")
              /\ elements' = Append(elements, "teeth")
         ELSE /\ elements' = elements \o <<"teeth", "path">>
              /\ pc' = "build_ports"
              /\ UNCHANGED <<err, failedIn>>
  /\ UNCHANGED <<args, portlist, path, teeth>>

\* lines 124-128: build_ports
build_ports ==
  /\ pc = "build_ports"
  /\ portlist' = {p \in portlist : p.name # "output"} \cup {PortEntry(args)}
  /\ pc' = "done"
  /\ UNCHANGED <<args, err, failedIn, path, teeth, elements>>

Next ==
  \/ InitFields
  \/ StraightGrating
  \/ FocusingGrating
  \/ Orient
  \/ AddToCell
  \/ build_ports

Spec == Init /\ [][Next]_vars

TypeOK ==
  /\ args \in Arguments
  /\ pc \in {"start", "build_cell", "orient", "add", "build_ports", "done", "failed"}
  /\ err \in {"none", "ValueError", "AssertionError", "IndexError", "UnboundLocalError"}
  /\ failedIn \in {"none", "__init__", "build_cell"}
  /\ Len(path) <= 1
  /\ Len(teeth) <= 1

\* ---- vocabulary of the properties

\* the error kind an out-of-range dutycycle produces (line 51)
InvalidParameter == "ValueError"

DutycycleInRange == 0 <= args.dutycycle /\ args.dutycycle <= DcDen

Focusing == args.focus_distance # <<>>

\* floor(l / p) by its defining inequalities
FloorQuot(l, p) == CHOOSE n \in 0..l : n * p <= l /\ l < (n + 1) * p

Abs(x) == IF x < 0 THEN -x ELSE x

\* compass angle of a cardinal direction, in degrees
DirAngle(d) ==
  CASE d = "EAST" -> 0
    [] d = "NORTH" -> 90
    [] d = "WEST" -> 180
    [] d = "SOUTH" -> 270

\* the rotation the orientation step is said to apply
ExpectedRot ==
  CASE args.direction = "WEST" -> <<[angle |-> 90, center |-> args.port]>>
    [] args.direction = "SOUTH" -> <<[angle |-> 180, center |-> args.port]>>
    [] args.direction = "EAST" -> <<[angle |-> 0 - 90, center |-> args.port]>>
    [] args.direction = "NORTH" -> <<>>

\* number of teeth the generated tooth object holds
TeethCount(t) == IF t.kind = "L1Path" THEN t.number ELSE Len(t.curves)

RECURSIVE SumLength(_)
SumLength(segs) ==
  IF segs = <<>> THEN 0 ELSE Head(segs).length + SumLength(Tail(segs))

\* the other parameters are ones for which a grating is defined: a known
\* resist tag and, when focusing, a positive focus distance and at least one tooth
OthersValid ==
  /\ args.wgt.resist \in {"-", "+"}
  /\ Focusing => (args.focus_distance[1] > 0 /\ args.length >= args.period)

\* C1: with the other parameters valid, every dutycycle in [0,1] lets the
\* construction run to completion without an error, and every dutycycle
\* outside [0,1] fails in __init__ with the InvalidParameter kind and
\* never gets past the check.
C1_DutycycleRange ==
  /\ (DutycycleInRange /\ OthersValid) => pc # "failed"
  /\ ~DutycycleInRange =>
       /\ pc \in {"start", "failed"}
       /\ pc = "failed" => (err = InvalidParameter /\ failedIn = "__init__")

C1_Witness ==
  /\ pc = "done"
  /\ args.dutycycle = DcDen
  /\ Focusing

\* C2: a supplied focus distance <= 0 fails with the same error kind as an
\* out-of-range dutycycle, and every focus distance > 0 with a dutycycle in
\* [0,1] and a known resist, for any length and period, never fails.
C2_FocusDistanceValidation ==
  (Focusing /\ DutycycleInRange) =>
     /\ args.focus_distance[1] <= 0 =>
          /\ pc \in {"start", "build_cell", "failed"}
          /\ pc = "failed" => err = InvalidParameter
     /\ args.focus_distance[1] > 0 => pc # "failed"

\* C3: at a validation failure (dutycycle or focus distance) no path and no
\* teeth object exists, the cell is empty and no port is registered.
C3_NoPartialState ==
  (pc = "failed" /\ err \in {"ValueError", "AssertionError"}) =>
     /\ path = <<>>
     /\ teeth = <<>>
     /\ elements = <<>>
     /\ portlist = {}

\* C4: after a successful construction the port list is exactly the entry
\* "output", at the caller's port coordinate whatever the direction (also
\* when the geometry was rotated), with the direction turned by 180 degrees.
C4_OutputPort ==
  pc = "done" =>
     /\ Cardinality(portlist) = 1
     /\ \A p \in portlist :
          /\ p.name = "output"
          /\ p.port = args.port
          /\ DirAngle(p.direction) = (DirAngle(args.direction) + 180) % 360
     /\ teeth[1].rot = ExpectedRot

C4_Witness ==
  /\ pc = "done"
  /\ args.direction = "EAST"
  /\ args.port # <<0, 0>>
  /\ teeth[1].rot # <<>>
  /\ \E p \in portlist : p.direction = "WEST" /\ p.port = args.port

\* C5: in both modes the number of teeth generated is floor(length / period).
C5_NumTeeth ==
  teeth # <<>> => TeethCount(teeth[1]) = FloorQuot(args.length, args.period)

C5_Witness ==
  /\ pc = "done"
  /\ Focusing
  /\ args.length % args.period # 0
  /\ TeethCount(teeth[1]) >= 1

\* C6: teeth and path are rotated about the port by the one angle of the
\* requested direction (WEST +90, SOUTH +180, EAST -90, NORTH none), at most
\* once each, after they are generated and before anything is added to the cell.
C6_Orientation ==
  /\ (pc = "orient" /\ teeth # <<>>) =>
        (teeth[1].rot = <<>> /\ path[1].rot = <<>> /\ elements = <<>>)
  /\ (pc \in {"add", "build_ports", "done"} /\ teeth # <<>>) =>
        (teeth[1].rot = ExpectedRot /\ path[1].rot = ExpectedRot)
  /\ elements # <<>> =>
        (elements = <<"teeth", "path">> /\ teeth[1].rot = ExpectedRot
           /\ path[1].rot = ExpectedRot)

C6_Witness ==
  /\ pc = "done"
  /\ args.direction = "EAST"
  /\ teeth[1].rot = <<[angle |-> 0 - 90, center |-> args.port]>>
  /\ path[1].rot = teeth[1].rot
  /\ elements = <<"teeth", "path">>

\* C7: a straight grating's tooth row has floor(length/period) teeth pitched
\* at period, each period*effective_duty long, centred at
\* taper_length + 0.5*(num_teeth - 1 + effective_duty)*period from the port,
\* with effective_duty = dutycycle for resist '-' and 1 - dutycycle for '+'.
C7_StraightTeeth ==
  (~Focusing /\ teeth # <<>>) =>
     LET eff == IF args.wgt.resist = "-" THEN args.dutycycle
                ELSE DcDen - args.dutycycle
         n == FloorQuot(args.length, args.period)
     IN /\ teeth[1].kind = "L1Path"
        /\ teeth[1].number = n
        /\ teeth[1].distance = args.period
        /\ teeth[1].widthD = args.period * eff
        /\ teeth[1].y2D - 2 * DcDen * args.port[2]
             = 2 * DcDen * args.taper_length + (DcDen * (n - 1) + eff) * args.period

C7_Witness ==
  /\ pc = "done"
  /\ ~Focusing
  /\ args.wgt.resist = "+"
  /\ 2 * args.dutycycle # DcDen
  /\ teeth[1].number >= 2

C9_ToothIndices ==
  (Focusing /\ teeth # <<>>) =>
     LET cs == teeth[1].curves
     IN /\ Len(cs) = FloorQuot(args.length, args.period)
        /\ \A i \in 1..Len(cs) :
             /\ cs[i].q = cs[1].q + i - 1
             /\ cs[i].from = <<"port", 0>>
        /\ cs # <<>> =>
             2 * Abs(cs[1].q * args.period - args.focus_distance[1]) <= args.period
        /\ teeth[1].cursor = <<"port", 0>>

C9_Witness ==
  /\ pc = "done"
  /\ Focusing
  /\ Len(teeth[1].curves) >= 2
  /\ args.focus_distance[1] % args.period # 0

\* C10: a straight grating whose resist tag is neither '-' nor '+' never
\* completes: no path or teeth exists, nothing is added to the cell, no port
\* is registered, and with a valid dutycycle it stops with an unbound-local
\* error inside build_cell, for every direction.
C10_UnknownResistAborts ==
  (~Focusing /\ args.wgt.resist \notin {"-", "+"}) =>
     /\ pc \notin {"build_ports", "done"}
     /\ path = <<>> /\ teeth = <<>>
     /\ elements = <<>>
     /\ portlist = {}
     /\ pc = "add" => args.direction = "NORTH"
     /\ (pc = "failed" /\ DutycycleInRange) =>
          (err = "UnboundLocalError" /\ failedIn = "build_cell")

C10_Witness ==
  /\ pc = "failed"
  /\ ~Focusing
  /\ args.wgt.resist = "x"
  /\ args.direction = "NORTH"
  /\ err = "UnboundLocalError"
====
